---- MODULE Spec2Model ----
(***************************************************************************)
(* A model of the sudoku solver: the cell bitmask (package cell), the      *)
(* coordinate iterators (package coord), the candidate priority queue      *)
(* (package cqueue, driven by container/heap) and the board with its       *)
(* propagation rules and iteratively deepened search (package main).       *)
(***************************************************************************)
EXTENDS Integers, Sequences, FiniteSets, Bags, TLC

(***************************************************************************)
(* Machine integers                                                        *)
(***************************************************************************)

\* uint16 mask of all ones, the range of canT
MaxU16 == 65535

\* int8 wrap-around of the type dim
Wrap8(n) == ((n + 128) % 256) - 128

\* Go's truncated integer division and remainder
GoQuo(a, b) == IF a >= 0 THEN a \div b ELSE -((-a) \div b)

GoRem(a, b) == a - b * GoQuo(a, b)

\* F applied to the value of x.  An operator argument or a LET definition
\* stands for its expression, which is evaluated where it is used and as often
\* as it is used; the variable bound here stands for a value.
With(x, F(_)) == CHOOSE r \in {F(v) : v \in {x}} : TRUE

\* bit i of the unsigned value x
Bit(x, i) == (x \div (2 ^ i)) % 2

\* a & b, from the lowest bit up
And[a \in Nat, b \in Nat] ==
    IF a = 0 \/ b = 0 THEN 0
    ELSE (a % 2) * (b % 2) + 2 * And[a \div 2, b \div 2]

BitAnd(a, b) == And[a, b]

\* x - 1 in uint16
Dec16(x) == (x + MaxU16) % (MaxU16 + 1)

\* 1 << (v - 1) in uint16, the shift count v - 1 computed in uint8
Shl1(v) ==
    LET s == (v + 255) % 256
    IN  IF s >= 16 THEN 0 ELSE 2 ^ s

\* bits.TrailingZeros16
RECURSIVE TrailingZeros16(_)
TrailingZeros16(x) ==
    IF x = 0 THEN 16
    ELSE IF x % 2 = 1 THEN 0
    ELSE 1 + TrailingZeros16(x \div 2)

\* bits.OnesCount16
OnesCount16(x) == With(x, LAMBDA v : Cardinality({i \in 0 .. 15 : Bit(v, i) = 1}))

(***************************************************************************)
(* package cell                                                            *)
(***************************************************************************)

everything == 511

none == 0

empty == 0

\* cell.New: a cell with Value v and no possibilities
CellNew(v) == [Value |-> v, can |-> none]

IsEmpty(c) == c.Value = empty

SetAll(c) == [c EXCEPT !.can = everything]

\* Drop with the shift count v instead of v - 1
DropNextBit(c, v) == [c EXCEPT !.can = BitAnd(c.can, MaxU16 - Shl1(v + 1))]

\* Drop flipping the bit of v instead of clearing it
DropToggle(c, v) ==
    [c EXCEPT !.can = IF BitAnd(c.can, Shl1(v)) = 0 THEN c.can + Shl1(v)
                                                ELSE c.can - Shl1(v)]

\* c.can &= ^(1 << (v - 1))
Drop(c, v) == [c EXCEPT !.can = BitAnd(c.can, MaxU16 - Shl1(v))]

\* IsSingle without the test for an empty mask
IsSingleOrNone(c) == BitAnd(c.can, Dec16(c.can)) = none

IsSingle(c) == c.can # none /\ BitAnd(c.can, Dec16(c.can)) = none

\* the index of the lowest set bit taken for the digit
FirstPossibilityBitIndex(c) == TrailingZeros16(c.can)

\* The first possible value for the cell
FirstPossibility(c) == TrailingZeros16(c.can) + 1

IsPossible(c, v) == BitAnd(c.can, Shl1(v)) # none

PossibilityCount(c) == OnesCount16(c.can)

\* the iterator over the possibilities of a cell
Possibilities(c) == [can |-> c.can, init |-> FALSE]

\* possibilityIterator.Next: the advanced iterator and the returned flag
PNext(p) ==
    IF p.init
    THEN LET can == BitAnd(p.can, Dec16(p.can))
         IN  [it |-> [p EXCEPT !.can = can], ok |-> can # 0]
    ELSE [it |-> [p EXCEPT !.init = TRUE], ok |-> TRUE]

PValue(p) == TrailingZeros16(p.can) + 1

(***************************************************************************)
(* package coord                                                           *)
(***************************************************************************)

Side == 9

BoxSide == 3

Cells == 81

Coord(x, y) == [X |-> x, Y |-> y]

\* coordinate to integer, computed in dim and widened to int
Ctoi(c) == Wrap8(Wrap8(c.Y * Side) + c.X)

All == [kind |-> "all", i |-> -1]

Row(c) == [kind |-> "row", base |-> c, i |-> -1]

Column(c) == [kind |-> "column", base |-> c, i |-> -1]

\* Box with c itself for the corner
BoxFromBase(c) ==
    [kind |-> "box", base |-> c, i |-> -1,
     coords |-> [n \in 0 .. Side - 1 |->
                    Coord(Wrap8((n \div BoxSide) + c.X), Wrap8((n % BoxSide) + c.Y))]]

Box(c) ==
    LET sx == Wrap8(c.X - GoRem(c.X, BoxSide))
        sy == Wrap8(c.Y - GoRem(c.Y, BoxSide))
    IN  [kind |-> "box", base |-> c, i |-> -1,
         coords |-> [n \in 0 .. Side - 1 |->
                        Coord(Wrap8((n \div BoxSide) + sx), Wrap8((n % BoxSide) + sy))]]

AllRows == [kind |-> "allRows", i |-> -1]

AllColumns == [kind |-> "allColumns", i |-> -1]

AllBoxes == [kind |-> "allBoxes", i |-> -1]

Composed(a, b) == [kind |-> "composed", a |-> a, b |-> b, bRun |-> FALSE]

\* the number of elements a simple iterator yields before Next returns false
Limit(it) == IF it.kind = "all" THEN Cells ELSE Side

\* Next of a composed iterator returning false when a is exhausted
RECURSIVE NextEndsWithA(_)
NextEndsWithA(it) ==
    IF it.kind = "composed"
    THEN LET na == NextEndsWithA(it.a)
         IN  [it |-> [it EXCEPT !.a = na.it], ok |-> na.ok]
    ELSE LET i == Wrap8(it.i + 1)
         IN  [it |-> [it EXCEPT !.i = i], ok |-> i < Limit(it)]

\* Next: the advanced iterator and the returned flag
RECURSIVE Next(_)
Next(it) ==
    IF it.kind = "composed"
    THEN IF it.bRun
         THEN LET nb == Next(it.b)
              IN  [it |-> [it EXCEPT !.b = nb.it], ok |-> nb.ok]
         ELSE LET na == Next(it.a)
              IN  IF na.ok
                  THEN [it |-> [it EXCEPT !.a = na.it], ok |-> TRUE]
                  ELSE LET nb == Next(it.b)
                       IN  [it |-> [it EXCEPT !.a = na.it, !.b = nb.it, !.bRun = TRUE],
                            ok |-> nb.ok]
    ELSE LET i == Wrap8(it.i + 1)
         IN  [it |-> [it EXCEPT !.i = i], ok |-> i < Limit(it)]

RECURSIVE Value(_)
Value(it) ==
    CASE it.kind = "composed" -> IF it.bRun THEN Value(it.b) ELSE Value(it.a)
      [] it.kind = "all" -> Coord(GoRem(it.i, Side), GoQuo(it.i, Side))
      [] it.kind = "row" -> Coord(it.i, it.base.Y)
      [] it.kind = "column" -> Coord(it.base.X, it.i)
      [] it.kind = "box" -> it.coords[it.i]
      [] it.kind = "allRows" -> Row(Coord(0, it.i))
      [] it.kind = "allColumns" -> Column(Coord(it.i, 0))
      [] it.kind = "allBoxes" ->
            Box(Coord(Wrap8(GoRem(it.i, BoxSide) * BoxSide),
                      Wrap8(GoQuo(it.i, BoxSide) * BoxSide)))

\* Reset leaving bRun of a composed iterator as it is
RECURSIVE ResetKeepsPhase(_)
ResetKeepsPhase(it) ==
    IF it.kind = "composed"
    THEN [it EXCEPT !.a = ResetKeepsPhase(it.a), !.b = ResetKeepsPhase(it.b)]
    ELSE [it EXCEPT !.i = -1]

RECURSIVE Reset(_)
Reset(it) ==
    IF it.kind = "composed"
    THEN [it EXCEPT !.a = Reset(it.a), !.b = Reset(it.b), !.bRun = FALSE]
    ELSE [it EXCEPT !.i = -1]

(***************************************************************************)
(* Loops over iterators                                                    *)
(*                                                                         *)
(* A loop `for i.Next() { ... i.Value() ... }` runs its body on the values *)
(* the iterator yields, in order.  Run drives an iterator until Next       *)
(* returns false and gives the values it yielded and the iterator as the   *)
(* loop leaves it.  (The recursion is cut into stretches of Side steps to  *)
(* keep its depth small.)                                                  *)
(***************************************************************************)

RECURSIVE RunUpTo(_, _)
RunUpTo(it, n) ==
    IF n = 0 THEN [seq |-> <<>>, it |-> it, more |-> TRUE]
    ELSE With(Next(it), LAMBDA nx :
            IF ~nx.ok THEN [seq |-> <<>>, it |-> nx.it, more |-> FALSE]
            ELSE With(RunUpTo(nx.it, n - 1), LAMBDA rest :
                    [seq |-> <<Value(nx.it)>> \o rest.seq, it |-> rest.it,
                     more |-> rest.more]))

RECURSIVE Run(_)
Run(it) ==
    With(RunUpTo(it, Side), LAMBDA part :
        IF part.more
        THEN With(Run(part.it), LAMBDA rest :
                [seq |-> part.seq \o rest.seq, it |-> rest.it])
        ELSE [seq |-> part.seq, it |-> part.it])

Drain(it) == Run(it).seq

Exhaust(it) == Run(it).it

(***************************************************************************)
(* package main: the board                                                 *)
(***************************************************************************)

\* board{}: the zero value of the array of cells
ZeroBoard == [k \in 0 .. Cells - 1 |-> [Value |-> empty, can |-> none]]

at(b, c) == b[Ctoi(c)]

\* allPossible's loop over positions lo..hi of cs, the first half before the second
RECURSIVE allPossibleLoop(_, _, _, _)
allPossibleLoop(b, cs, lo, hi) ==
    IF lo > hi THEN b
    ELSE IF lo = hi THEN [b EXCEPT ![Ctoi(cs[lo])] = SetAll(@)]
    ELSE With(allPossibleLoop(b, cs, lo, (lo + hi) \div 2), LAMBDA left :
            allPossibleLoop(left, cs, (lo + hi) \div 2 + 1, hi))

\* sets all cells to all 9 digits are possible
allPossible(b) ==
    With(Drain(All), LAMBDA cs : allPossibleLoop(b, cs, 1, Len(cs)))

\* fill's loop over positions lo..hi of cs, the first half before the second
RECURSIVE fillLoop(_, _, _, _, _)
fillLoop(b, cs, v, lo, hi) ==
    IF lo > hi THEN b
    ELSE IF lo = hi THEN [b EXCEPT ![Ctoi(cs[lo])] = Drop(@, v)]
    ELSE With(fillLoop(b, cs, v, lo, (lo + hi) \div 2), LAMBDA left :
            fillLoop(left, cs, v, (lo + hi) \div 2 + 1, hi))

\* fill's assignment storing the value only, the candidates kept
fillTargetKeep(b, c, v) == [b EXCEPT ![Ctoi(c)].Value = v]

\* the target cell of fill: *b.at(c) = cell.New(v)
fillTarget(b, c, v) == [b EXCEPT ![Ctoi(c)] = CellNew(v)]

\* fill's cells without the box
fillCoordsNoBox(c) == Drain(Composed(Row(c), Column(c)))

\* the cells fill drops v from
fillCoords(c) == Drain(Composed(Composed(Row(c), Column(c)), Box(c)))

\* fill a cell in the board at c with v
fill(b, c, v) ==
    With(fillCoords(c), LAMBDA cs :
        With(fillTarget(b, c, v), LAMBDA t : fillLoop(t, cs, v, 1, Len(cs))))

\* singlePossible's body without r = true
singlePossibleBodyNoFlag(s, co) ==
    IF IsSingle(at(s.b, co))
    THEN [b |-> fill(s.b, co, FirstPossibility(at(s.b, co))), r |-> s.r]
    ELSE s

\* the body of singlePossible's loop at coordinate co, on s = [b, r]
singlePossibleBody(s, co) ==
    IF IsSingle(at(s.b, co))
    THEN [b |-> fill(s.b, co, FirstPossibility(at(s.b, co))), r |-> TRUE]
    ELSE s

RECURSIVE singlePossibleLoop(_, _, _, _)
singlePossibleLoop(s, cs, lo, hi) ==
    IF lo > hi THEN s
    ELSE IF lo = hi THEN singlePossibleBody(s, cs[lo])
    ELSE With(singlePossibleLoop(s, cs, lo, (lo + hi) \div 2), LAMBDA left :
            singlePossibleLoop(left, cs, (lo + hi) \div 2 + 1, hi))

\* look for a cell that has a single possibility and fill:
\* the board after the call and the returned flag
singlePossible(b) ==
    With(Drain(All), LAMBDA cs :
        singlePossibleLoop([b |-> b, r |-> FALSE], cs, 1, Len(cs)))

\* onlyPlace's first loop over a group r: how many cells admit each digit
counts(b, r) ==
    With(Drain(r), LAMBDA cs :
        [j \in 1 .. Side |->
            Cardinality({k \in 1 .. Len(cs) : IsPossible(at(b, cs[k]), j)})])

\* the coordinates of onlyPlace's second loop over a group r, after r.Reset()
again(r) == Drain(Reset(Exhaust(r)))

\* onlyPlace's second loop over a group r: the positions and digits at which
\* the condition of the if holds
places(b, r) ==
    With(counts(b, r), LAMBDA cnt :
        With(again(r), LAMBDA cs :
            {p \in (1 .. Len(cs)) \X (1 .. Side) :
                IsPossible(at(b, cs[p[1]]), p[2]) /\ cnt[p[2]] = 1}))

\* the first of them in the order of the two nested loops: earliest cell,
\* then lowest digit
firstPlace(b, r) ==
    With(places(b, r), LAMBDA ps :
        With(CHOOSE p \in ps :
                \A o \in ps : p[1] < o[1] \/ (p[1] = o[1] /\ p[2] <= o[2]),
             LAMBDA p : [c |-> again(r)[p[1]], v |-> p[2]]))

\* onlyPlace's groups without the boxes
groupsNoBoxes == Drain(Composed(AllRows, AllColumns))

\* the groups onlyPlace visits: the rows, then the columns, then the boxes
groups == Drain(Composed(Composed(AllRows, AllColumns), AllBoxes))

\* the groups of gs, by position, in which onlyPlace's if holds somewhere
hits(b, gs) == {g \in 1 .. Len(gs) : places(b, gs[g]) # {}}

\* find a digit that can only go in one place, and fill it in:
\* the board after the call and the returned flag
onlyPlace(b) ==
    With(groups, LAMBDA gs :
        With(hits(b, gs), LAMBDA hit :
            IF hit = {} THEN [b |-> b, r |-> FALSE]
            ELSE With(firstPlace(b, gs[CHOOSE g \in hit : \A o \in hit : g <= o]),
                      LAMBDA p : [b |-> fill(b, p.c, p.v), r |-> TRUE])))

solved(b) ==
    With(Drain(All), LAMBDA cs :
        \A k \in 1 .. Len(cs) : ~IsEmpty(at(b, cs[k])))

\* there is a cell that has no possible value left but also not filled in
contradicts(b) ==
    With(Drain(All), LAMBDA cs :
        \E k \in 1 .. Len(cs) :
            at(b, cs[k]).Value = 0 /\ PossibilityCount(at(b, cs[k])) = 0)

(***************************************************************************)
(* container/heap over cqueue.Queue                                        *)
(***************************************************************************)

PrioCoord(count, c) == [Count |-> count, Coord |-> c]

\* cqueue.New: the queue is a sequence; Go's index k is position k + 1
QueueNew == <<>>

\* Less with the comparison turned round
LessDescending(q, i, j) == q[i + 1].Count > q[j + 1].Count

Less(q, i, j) == q[i + 1].Count < q[j + 1].Count

Swap(q, i, j) == [q EXCEPT ![i + 1] = q[j + 1], ![j + 1] = q[i + 1]]

\* heap.up
RECURSIVE up(_, _)
up(q, j) ==
    With(GoQuo(j - 1, 2), LAMBDA i :
        IF i = j \/ ~Less(q, j, i) THEN q
        ELSE With(Swap(q, i, j), LAMBDA h : up(h, i)))

\* heap.down
RECURSIVE down(_, _, _)
down(q, i, n) ==
    With(2 * i + 1, LAMBDA j1 :
        IF j1 >= n \/ j1 < 0 THEN q
        ELSE With(IF j1 + 1 < n /\ Less(q, j1 + 1, j1) THEN j1 + 1 ELSE j1,
                  LAMBDA j :
                      IF ~Less(q, j, i) THEN q
                      ELSE With(Swap(q, i, j), LAMBDA h : down(h, j, n))))

\* heap.Push: Queue.Push appends, then up restores the heap order
heapPush(q, x) == With(Append(q, x), LAMBDA h : up(h, Len(h) - 1))

\* heap.Pop: swap the root to the end, sift down, Queue.Pop removes the last
heapPop(q) ==
    With(Swap(q, 0, Len(q) - 1), LAMBDA s :
        With(down(s, 0, Len(s) - 1), LAMBDA h :
            [q |-> SubSeq(h, 1, Len(h) - 1), x |-> h[Len(h)]]))

(***************************************************************************)
(* package main: the search                                                *)
(***************************************************************************)

\* the body of tries' loop without the upper bound on the count
triesBodyAnyWidth(b, q, maxWidth, c) ==
    With(PossibilityCount(at(b, c)), LAMBDA p :
        IF 0 < p THEN heapPush(q, PrioCoord(p, c)) ELSE q)

\* the body of tries' loop at coordinate c, on the queue q
triesBody(b, q, maxWidth, c) ==
    With(PossibilityCount(at(b, c)), LAMBDA p :
        IF 0 < p /\ p <= maxWidth THEN heapPush(q, PrioCoord(p, c)) ELSE q)

RECURSIVE triesLoop(_, _, _, _, _, _)
triesLoop(b, q, maxWidth, cs, lo, hi) ==
    IF lo > hi THEN q
    ELSE IF lo = hi THEN triesBody(b, q, maxWidth, cs[lo])
    ELSE With(triesLoop(b, q, maxWidth, cs, lo, (lo + hi) \div 2), LAMBDA left :
            triesLoop(b, left, maxWidth, cs, (lo + hi) \div 2 + 1, hi))

\* coordinates to try, least amount of candidates first
tries(b, maxWidth) ==
    With(Drain(All), LAMBDA cs : triesLoop(b, QueueNew, maxWidth, cs, 1, Len(cs)))

\* Go's builtin max
max(a, b) == IF a >= b THEN a ELSE b

StartDepth == 3

MinWidth == 2

WidthDivisor == 3

\* a width that does not grow with maxDepth
WidthFixed(maxDepth) == MinWidth

\* the width iterate passes to solve
Width(maxDepth) == max(GoQuo(maxDepth, WidthDivisor), MinWidth)

\* the copy made whatever the recursive solve returned
AfterBranchAlways(b, bb, r) == bb

\* the caller's board when the recursive solve returns r: copy(b[:], bb[:])
\* on success, b untouched otherwise
AfterBranch(b, bb, r) == IF r THEN bb ELSE b

(***************************************************************************)
(* The puzzles main is run on: nine rows of nine digits, 0 for no given    *)
(***************************************************************************)

\* solved by the propagation rules alone
PropagationOnly ==
    << <<8, 1, 2, 0, 0, 3, 0, 4, 0>>,
       <<9, 0, 3, 6, 0, 2, 0, 0, 5>>,
       <<6, 7, 5, 4, 9, 0, 0, 8, 0>>,
       <<1, 5, 0, 2, 0, 7, 8, 9, 6>>,
       <<3, 6, 9, 0, 0, 0, 7, 2, 1>>,
       <<2, 8, 0, 1, 0, 0, 0, 0, 4>>,
       <<5, 0, 1, 0, 0, 0, 3, 6, 8>>,
       <<0, 3, 8, 5, 2, 0, 9, 0, 0>>,
       <<7, 9, 0, 0, 1, 0, 4, 5, 0>> >>

\* solved after one hypothesis
OneGuess ==
    << <<8, 0, 0, 7, 5, 3, 6, 4, 0>>,
       <<9, 0, 0, 0, 0, 2, 1, 0, 0>>,
       <<6, 7, 0, 4, 9, 1, 2, 0, 0>>,
       <<1, 5, 4, 0, 3, 0, 8, 9, 0>>,
       <<0, 0, 0, 8, 4, 5, 7, 2, 1>>,
       <<2, 0, 0, 0, 0, 9, 0, 3, 4>>,
       <<5, 2, 1, 9, 7, 4, 0, 0, 8>>,
       <<0, 3, 0, 5, 2, 6, 9, 0, 0>>,
       <<7, 9, 0, 3, 0, 0, 4, 5, 2>> >>

\* solved after hypotheses that end in a contradiction
DeadEnd ==
    << <<0, 0, 0, 0, 0, 3, 6, 0, 0>>,
       <<0, 0, 0, 0, 8, 2, 1, 7, 5>>,
       <<0, 0, 5, 0, 9, 1, 2, 0, 0>>,
       <<0, 0, 0, 0, 0, 0, 0, 0, 6>>,
       <<3, 6, 9, 8, 0, 5, 7, 2, 1>>,
       <<2, 8, 7, 1, 0, 0, 0, 0, 4>>,
       <<5, 0, 1, 9, 7, 4, 0, 0, 8>>,
       <<0, 3, 0, 0, 0, 0, 0, 1, 0>>,
       <<0, 0, 0, 0, 0, 8, 0, 0, 0>> >>

\* solved in the first attempt, past branches that the depth guard cuts
DepthCut ==
    << <<0, 1, 2, 0, 0, 0, 0, 4, 9>>,
       <<9, 0, 3, 0, 8, 2, 1, 0, 5>>,
       <<0, 0, 5, 4, 0, 0, 2, 8, 3>>,
       <<0, 0, 0, 2, 3, 0, 0, 0, 6>>,
       <<0, 0, 0, 0, 4, 5, 7, 0, 1>>,
       <<0, 8, 7, 0, 0, 0, 0, 0, 0>>,
       <<5, 2, 1, 9, 0, 4, 3, 0, 0>>,
       <<4, 3, 0, 5, 2, 0, 0, 0, 0>>,
       <<7, 0, 0, 0, 1, 0, 4, 0, 0>> >>

\* no cell within the width 2: each attempt fails until maxWidth is 3
Widening ==
    << <<0, 0, 0, 7, 0, 0, 6, 4, 9>>,
       <<9, 4, 0, 6, 0, 0, 0, 0, 0>>,
       <<0, 0, 0, 0, 0, 0, 0, 0, 0>>,
       <<0, 5, 0, 0, 3, 0, 0, 9, 0>>,
       <<3, 0, 0, 0, 0, 5, 0, 0, 0>>,
       <<0, 0, 7, 1, 0, 9, 5, 0, 0>>,
       <<0, 0, 1, 9, 0, 0, 3, 0, 0>>,
       <<0, 0, 0, 5, 0, 0, 9, 1, 7>>,
       <<0, 9, 6, 0, 0, 0, 4, 0, 0>> >>

\* givens that were each a candidate, and that propagation contradicts
Unsolvable ==
    << <<8, 0, 0, 7, 5, 0, 6, 4, 0>>,
       <<9, 0, 3, 6, 8, 0, 0, 0, 0>>,
       <<0, 7, 0, 4, 0, 1, 2, 0, 3>>,
       <<0, 5, 0, 0, 3, 7, 0, 9, 0>>,
       <<3, 6, 9, 8, 0, 0, 0, 0, 0>>,
       <<0, 8, 7, 1, 0, 0, 5, 3, 0>>,
       <<0, 2, 1, 9, 7, 4, 0, 6, 0>>,
       <<4, 3, 8, 0, 2, 5, 9, 1, 0>>,
       <<0, 9, 6, 3, 0, 8, 0, 5, 0>> >>

\* givens with a digit twice in a unit, and a hypothesis to make
DuplicateGuess ==
    << <<8, 1, 2, 7, 5, 3, 6, 4, 9>>,
       <<9, 0, 3, 6, 8, 0, 1, 7, 0>>,
       <<6, 7, 5, 4, 9, 1, 2, 8, 3>>,
       <<0, 0, 4, 0, 3, 7, 8, 9, 6>>,
       <<3, 0, 9, 8, 4, 5, 0, 2, 0>>,
       <<0, 8, 7, 0, 6, 9, 5, 3, 4>>,
       <<0, 2, 1, 9, 7, 4, 3, 7, 0>>,
       <<4, 3, 8, 5, 2, 6, 9, 1, 7>>,
       <<7, 9, 6, 3, 1, 8, 4, 5, 2>> >>

\* givens with a digit twice in a unit, never solved
DuplicateStuck ==
    << <<0, 1, 0, 7, 5, 3, 6, 4, 0>>,
       <<9, 4, 3, 6, 8, 2, 1, 7, 5>>,
       <<0, 7, 5, 0, 9, 1, 2, 0, 3>>,
       <<1, 5, 4, 2, 3, 7, 0, 9, 6>>,
       <<3, 6, 0, 8, 4, 5, 0, 0, 1>>,
       <<2, 0, 7, 1, 0, 9, 6, 3, 0>>,
       <<5, 2, 1, 9, 7, 4, 3, 6, 8>>,
       <<4, 3, 8, 5, 2, 6, 9, 1, 0>>,
       <<7, 9, 6, 3, 1, 8, 4, 5, 2>> >>

\* the attempt at maxDepth 3 fails at the depth guard, the next one succeeds
Deepening ==
    << <<0, 1, 0, 0, 0, 0, 0, 4, 0>>,
       <<9, 4, 0, 0, 0, 2, 0, 0, 5>>,
       <<0, 0, 5, 4, 0, 0, 2, 0, 0>>,
       <<0, 5, 4, 0, 3, 7, 0, 0, 0>>,
       <<0, 0, 0, 0, 4, 5, 0, 0, 1>>,
       <<0, 0, 0, 0, 6, 0, 5, 3, 4>>,
       <<5, 2, 0, 0, 0, 4, 3, 6, 0>>,
       <<4, 0, 0, 5, 0, 6, 0, 0, 7>>,
       <<0, 0, 6, 0, 0, 0, 4, 5, 0>> >>

\* givens that were each a candidate, with no completion: every hypothesis
\* ends in a contradiction
Barren ==
    << <<0, 1, 2, 0, 0, 0, 6, 4, 9>>,
       <<9, 0, 0, 6, 8, 2, 0, 0, 0>>,
       <<0, 0, 0, 4, 0, 0, 0, 0, 3>>,
       <<1, 5, 4, 0, 3, 7, 0, 9, 6>>,
       <<0, 0, 0, 0, 4, 5, 7, 0, 0>>,
       <<0, 8, 7, 1, 6, 9, 0, 3, 0>>,
       <<5, 2, 1, 0, 0, 0, 3, 6, 0>>,
       <<0, 3, 8, 5, 2, 6, 0, 0, 7>>,
       <<0, 0, 6, 0, 1, 4, 0, 5, 0>> >>

\* the main diagonal left open
Diagonal ==
    << <<0, 1, 2, 7, 5, 3, 6, 4, 9>>,
       <<9, 0, 3, 6, 8, 2, 1, 7, 5>>,
       <<6, 7, 0, 4, 9, 1, 2, 8, 3>>,
       <<1, 5, 4, 0, 3, 7, 8, 9, 6>>,
       <<3, 6, 9, 8, 0, 5, 7, 2, 1>>,
       <<2, 8, 7, 1, 6, 0, 5, 3, 4>>,
       <<5, 2, 1, 9, 7, 4, 0, 6, 8>>,
       <<4, 3, 8, 5, 2, 6, 9, 0, 7>>,
       <<7, 9, 6, 3, 1, 8, 4, 5, 0>> >>

\* iterate gives up here: the attempts run with maxDepth up to MaxDepthCap
MaxDepthCap == 10

\* the puzzles run, and the puzzles run where fairness is stated
NumPuzzles == 10

NumLive == 8

Puzzles ==
    << PropagationOnly, OneGuess, DeadEnd, DepthCut, Widening, Unsolvable,
       DuplicateGuess, DuplicateStuck, Deepening, Barren, Diagonal >>

\* a completion of PropagationOnly, OneGuess, DeadEnd, DepthCut and Diagonal
Completion ==
    << <<8, 1, 2, 7, 5, 3, 6, 4, 9>>,
       <<9, 4, 3, 6, 8, 2, 1, 7, 5>>,
       <<6, 7, 5, 4, 9, 1, 2, 8, 3>>,
       <<1, 5, 4, 2, 3, 7, 8, 9, 6>>,
       <<3, 6, 9, 8, 4, 5, 7, 2, 1>>,
       <<2, 8, 7, 1, 6, 9, 5, 3, 4>>,
       <<5, 2, 1, 9, 7, 4, 3, 6, 8>>,
       <<4, 3, 8, 5, 2, 6, 9, 1, 7>>,
       <<7, 9, 6, 3, 1, 8, 4, 5, 2>> >>

\* a completion of Widening
WideningCompletion ==
    << <<2, 1, 3, 7, 5, 8, 6, 4, 9>>,
       <<9, 4, 5, 6, 2, 1, 8, 7, 3>>,
       <<6, 7, 8, 3, 9, 4, 2, 5, 1>>,
       <<1, 5, 2, 4, 3, 6, 7, 9, 8>>,
       <<3, 8, 9, 2, 7, 5, 1, 6, 4>>,
       <<4, 6, 7, 1, 8, 9, 5, 3, 2>>,
       <<5, 2, 1, 9, 4, 7, 3, 8, 6>>,
       <<8, 3, 4, 5, 6, 2, 9, 1, 7>>,
       <<7, 9, 6, 8, 1, 3, 4, 2, 5>> >>

\* a completion of Deepening
DeepeningCompletion ==
    << <<2, 1, 7, 3, 5, 9, 8, 4, 6>>,
       <<9, 4, 3, 6, 8, 2, 1, 7, 5>>,
       <<6, 8, 5, 4, 7, 1, 2, 9, 3>>,
       <<8, 5, 4, 1, 3, 7, 6, 2, 9>>,
       <<3, 6, 2, 9, 4, 5, 7, 8, 1>>,
       <<7, 9, 1, 2, 6, 8, 5, 3, 4>>,
       <<5, 2, 9, 7, 1, 4, 3, 6, 8>>,
       <<4, 3, 8, 5, 2, 6, 9, 1, 7>>,
       <<1, 7, 6, 8, 9, 3, 4, 5, 2>> >>

Completions == {Completion, WideningCompletion, DeepeningCompletion}

\* the fill calls of main for a grid, row by row from cell k on: the cells that hold a digit
GridGivens(g, k) ==
    SelectSeq([i \in 1 .. Cells - k |->
                  [c |-> Coord((k + i - 1) % Side, (k + i - 1) \div Side),
                   v |-> g[((k + i - 1) \div Side) + 1][((k + i - 1) % Side) + 1]]],
              LAMBDA e : e.v # 0)

(***************************************************************************)
(* State                                                                   *)
(***************************************************************************)

VARIABLES
    pc,        \* where main is: "start", "givens", "iterate", "done"
    givens,    \* the fill calls main has still to make
    boards,    \* boards[1] is main's b; boards[d + 2] is the clone bb made by try at depth d
    maxDepth,  \* the loop variable of iterate
    stack,     \* one frame per nested solve/try call; frame d + 1 runs at depth d on boards[d + 1]
    ret,       \* the value the last returned solve handed to its caller: "none", "true", "false"
    orig,      \* history: the board iterate was called on
    legal,     \* history: every given was a candidate of its then-unsolved cell
    cut,       \* history: the depth guard has returned false in the running attempt
    heapq,     \* a Queue driven through heap.Push and heap.Pop on its own
    cel,       \* a Cell driven through Drop and Possibilities on its own
    iter       \* a coordinate iterator driven through Next, Value and Reset on its own

\* the packages cqueue, cell and coord taken on their own
bench == <<heapq, cel, iter>>

vars == <<pc, givens, boards, maxDepth, stack, ret, orig, legal, cut, bench>>

\* a package that the specification at hand does not drive
Unused == [use |-> FALSE]

Init ==
    /\ pc = "start"
    /\ givens \in {GridGivens(Puzzles[p], 0) : p \in 1 .. NumPuzzles}
    /\ boards = <<ZeroBoard>>
    /\ maxDepth = 0
    /\ stack = <<>>
    /\ ret = "none"
    /\ orig = ZeroBoard
    /\ legal = TRUE
    /\ cut = FALSE
    /\ heapq = Unused
    /\ cel = Unused
    /\ iter = Unused

\* the frame of the running call and its board
top == stack[Len(stack)]

cur == boards[Len(stack)]

Frame(depth, md, mw) ==
    [pc |-> "solve", depth |-> depth, maxDepth |-> md, maxWidth |-> mw,
     q |-> QueueNew, c |-> Coord(0, 0), i |-> Possibilities(CellNew(empty)),
     entry |-> ZeroBoard]

SetTop(f) == [stack EXCEPT ![Len(stack)] = f]

SetCur(b) == [boards EXCEPT ![Len(stack)] = b]

\* the running call returns r to its caller
Return(r) ==
    /\ stack' = SubSeq(stack, 1, Len(stack) - 1)
    /\ ret' = IF r THEN "true" ELSE "false"

\* main: b.allPossible()
AllPossible ==
    /\ pc = "start"
    /\ pc' = "givens"
    /\ boards' = <<allPossible(boards[1])>>
    /\ UNCHANGED <<bench, givens, maxDepth, stack, ret, orig, legal, cut>>

\* main: the next b.fill(coord, digit)
FillGiven ==
    /\ pc = "givens"
    /\ givens # <<>>
    /\ LET g == Head(givens)
           t == at(boards[1], g.c)
       IN  /\ boards' = <<fill(boards[1], g.c, g.v)>>
           /\ legal' = (legal /\ IsEmpty(t) /\ IsPossible(t, g.v))
    /\ givens' = Tail(givens)
    /\ UNCHANGED <<bench, pc, maxDepth, stack, ret, orig, cut>>

\* main: b.iterate(); iterate: maxDepth := 3
Iterate ==
    /\ pc = "givens"
    /\ givens = <<>>
    /\ pc' = "iterate"
    /\ maxDepth' = StartDepth
    /\ orig' = boards[1]
    /\ UNCHANGED <<bench, givens, boards, stack, ret, legal, cut>>

\* iterate: b.solve(0, maxDepth, max(maxDepth/3, 2))
IterateSolve ==
    /\ pc = "iterate"
    /\ stack = <<>>
    /\ ret = "none"
    /\ stack' = <<Frame(0, maxDepth, Width(maxDepth))>>
    /\ cut' = FALSE
    /\ UNCHANGED <<bench, pc, givens, boards, maxDepth, ret, orig, legal>>

\* iterate returning after the first attempt, whatever its result
IterateReturnAlways ==
    /\ pc = "iterate"
    /\ stack = <<>>
    /\ ret # "none"
    /\ pc' = "done"
    /\ ret' = "none"
    /\ UNCHANGED <<bench, givens, boards, maxDepth, stack, orig, legal, cut>>

\* iterate putting the board it was called on back before the next attempt
IterateReturnRestore ==
    /\ pc = "iterate"
    /\ stack = <<>>
    /\ ret # "none"
    /\ IF ret = "true"
       THEN pc' = "done" /\ maxDepth' = maxDepth /\ boards' = boards
       ELSE /\ maxDepth < MaxDepthCap
            /\ pc' = pc
            /\ maxDepth' = maxDepth + 1
            /\ boards' = <<orig>>
    /\ ret' = "none"
    /\ UNCHANGED <<bench, givens, stack, orig, legal, cut>>

\* iterate: return on success, maxDepth++ otherwise
IterateReturn ==
    /\ pc = "iterate"
    /\ stack = <<>>
    /\ ret # "none"
    /\ IF ret = "true"
       THEN pc' = "done" /\ maxDepth' = maxDepth
       ELSE maxDepth < MaxDepthCap /\ pc' = pc /\ maxDepth' = maxDepth + 1
    /\ ret' = "none"
    /\ UNCHANGED <<bench, givens, boards, stack, orig, legal, cut>>

\* the guard of solve letting the depth maxDepth through
SolveGuardLate ==
    /\ stack # <<>>
    /\ top.pc = "solve"
    /\ IF top.depth > top.maxDepth
       THEN Return(FALSE) /\ cut' = TRUE
       ELSE stack' = SetTop([top EXCEPT !.pc = "singlePossible"]) /\ ret' = ret /\ cut' = cut
    /\ UNCHANGED <<bench, pc, givens, boards, maxDepth, orig, legal>>

\* solve: if depth >= maxDepth { return false }
SolveGuard ==
    /\ stack # <<>>
    /\ top.pc = "solve"
    /\ IF top.depth >= top.maxDepth
       THEN Return(FALSE) /\ cut' = TRUE
       ELSE stack' = SetTop([top EXCEPT !.pc = "singlePossible"]) /\ ret' = ret /\ cut' = cut
    /\ UNCHANGED <<bench, pc, givens, boards, maxDepth, orig, legal>>

\* solve: the left operand of the loop condition
SinglePossible ==
    /\ stack # <<>>
    /\ top.pc = "singlePossible"
    /\ \E s \in {singlePossible(cur)} :
           /\ boards' = SetCur(s.b)
           /\ stack' = SetTop([top EXCEPT
                  !.pc = IF s.r THEN "singlePossible" ELSE "onlyPlace"])
    /\ UNCHANGED <<bench, pc, givens, maxDepth, ret, orig, legal, cut>>

\* solve: the right operand of the loop condition
OnlyPlace ==
    /\ stack # <<>>
    /\ top.pc = "onlyPlace"
    /\ \E s \in {onlyPlace(cur)} :
           /\ boards' = SetCur(s.b)
           /\ stack' = SetTop([top EXCEPT
                  !.pc = IF s.r THEN "singlePossible" ELSE "solved"])
    /\ UNCHANGED <<bench, pc, givens, maxDepth, ret, orig, legal, cut>>

\* solve: if b.solved() { return true }
Solved ==
    /\ stack # <<>>
    /\ top.pc = "solved"
    /\ IF solved(cur)
       THEN Return(TRUE)
       ELSE stack' = SetTop([top EXCEPT !.pc = "contradicts"]) /\ ret' = ret
    /\ UNCHANGED <<bench, pc, givens, boards, maxDepth, orig, legal, cut>>

\* solve: if b.contradicts() { return false }; return b.try(...)
Contradicts ==
    /\ stack # <<>>
    /\ top.pc = "contradicts"
    /\ IF contradicts(cur)
       THEN Return(FALSE)
       ELSE stack' = SetTop([top EXCEPT !.pc = "try"]) /\ ret' = ret
    /\ UNCHANGED <<bench, pc, givens, boards, maxDepth, orig, legal, cut>>

\* try: q := b.tries(maxWidth)
Tries ==
    /\ stack # <<>>
    /\ top.pc = "try"
    /\ stack' = SetTop([top EXCEPT !.pc = "pop", !.q = tries(cur, top.maxWidth),
                                    !.entry = cur])
    /\ UNCHANGED <<bench, pc, givens, boards, maxDepth, ret, orig, legal, cut>>

\* the queue q without its position k
Without(q, k) == SubSeq(q, 1, k - 1) \o SubSeq(q, k + 1, Len(q))

\* try taking any entry of the queue
TryPopAny ==
    /\ stack # <<>>
    /\ top.pc = "pop"
    /\ IF Len(top.q) > 0
       THEN \E k \in 1 .. Len(top.q) :
                /\ stack' = SetTop([top EXCEPT !.pc = "next", !.q = Without(top.q, k),
                       !.c = top.q[k].Coord,
                       !.i = Possibilities(at(cur, top.q[k].Coord))])
                /\ ret' = ret
       ELSE Return(FALSE)
    /\ UNCHANGED <<bench, pc, givens, boards, maxDepth, orig, legal, cut>>

\* try: the head of the outer loop: q.Len() > 0, heap.Pop, b.at(c).Possibilities()
TryPop ==
    /\ stack # <<>>
    /\ top.pc = "pop"
    /\ IF Len(top.q) > 0
       THEN \E p \in {heapPop(top.q)} :
                /\ stack' = SetTop([top EXCEPT !.pc = "next", !.q = p.q,
                       !.c = p.x.Coord, !.i = Possibilities(at(cur, p.x.Coord))])
                /\ ret' = ret
       ELSE Return(FALSE)
    /\ UNCHANGED <<bench, pc, givens, boards, maxDepth, orig, legal, cut>>

\* try: the head of the inner loop: i.Next(), clone, bb.fill(c, v), bb.solve(depth+1, ...)
TryNext ==
    /\ stack # <<>>
    /\ top.pc = "next"
    /\ LET n == PNext(top.i)
       IN  IF n.ok
           THEN /\ boards' = Append(boards, fill(cur, top.c, PValue(n.it)))
                /\ stack' = Append(SetTop([top EXCEPT !.pc = "wait", !.i = n.it]),
                                    Frame(top.depth + 1, top.maxDepth, top.maxWidth))
           ELSE /\ boards' = boards
                /\ stack' = SetTop([top EXCEPT !.pc = "pop", !.i = n.it])
    /\ UNCHANGED <<bench, pc, givens, maxDepth, ret, orig, legal, cut>>

\* try: the recursive solve has returned
TryReturn ==
    /\ stack # <<>>
    /\ top.pc = "wait"
    /\ ret # "none"
    /\ LET d == Len(stack)
           b == AfterBranch(boards[d], boards[d + 1], ret = "true")
       IN  boards' = Append(SubSeq(boards, 1, d - 1), b)
    /\ IF ret = "true"
       THEN Return(TRUE)
       ELSE stack' = SetTop([top EXCEPT !.pc = "next"]) /\ ret' = "none"
    /\ UNCHANGED <<bench, pc, givens, maxDepth, orig, legal, cut>>

Next0 ==
    \/ AllPossible
    \/ FillGiven
    \/ Iterate
    \/ IterateSolve
    \/ IterateReturn
    \/ SolveGuard
    \/ SinglePossible
    \/ OnlyPlace
    \/ Solved
    \/ Contradicts
    \/ Tries
    \/ TryPop
    \/ TryNext
    \/ TryReturn

Spec == Init /\ [][Next0]_vars

\* the first NumLive puzzles
FairInit == Init /\ givens \in {GridGivens(Puzzles[p], 0) : p \in 1 .. NumLive}

\* the program runs on: a step that can be taken is taken
FairSpec == FairInit /\ [][Next0]_vars /\ WF_vars(Next0)

(***************************************************************************)
(* The packages on their own                                               *)
(*                                                                         *)
(* cqueue, cell and coord are libraries: their exported operations can be  *)
(* called in any order.  Each of the specifications below drives one of    *)
(* them, main standing still.                                              *)
(***************************************************************************)

program == <<pc, givens, boards, maxDepth, stack, ret, orig, legal, cut>>

\* main is not run
Parked ==
    /\ pc = "parked"
    /\ givens = <<>>
    /\ boards = <<ZeroBoard>>
    /\ maxDepth = 0
    /\ stack = <<>>
    /\ ret = "none"
    /\ orig = ZeroBoard
    /\ legal = TRUE
    /\ cut = FALSE

\* the most entries pushed on the queue, and the highest Count pushed
MaxPushes == 5

MaxCount == 3

\* the coordinates pushed
QueueCoords == {Coord(0, 0), Coord(1, 0)}

\* q := cqueue.New(), with the entries pushed and popped so far and the
\* result of the last heap.Pop (none yet)
QueueInit ==
    /\ Parked
    /\ heapq = [use |-> TRUE, q |-> QueueNew, pushed |-> EmptyBag, popped |-> EmptyBag,
                x |-> <<>>]
    /\ cel = Unused
    /\ iter = Unused

\* heap.Push(&q, cqueue.PrioCoord{Count: n, Coord: c})
HeapPush ==
    /\ heapq.use
    /\ BagCardinality(heapq.pushed) < MaxPushes
    /\ \E n \in 1 .. MaxCount : \E c \in QueueCoords :
           heapq' = [heapq EXCEPT !.q = heapPush(@, PrioCoord(n, c)),
                                  !.pushed = @ (+) SetToBag({PrioCoord(n, c)})]
    /\ UNCHANGED <<program, cel, iter>>

\* heap.Pop(&q) on a queue that is not empty
HeapPop ==
    /\ heapq.use
    /\ Len(heapq.q) > 0
    /\ \E p \in {heapPop(heapq.q)} :
           heapq' = [heapq EXCEPT !.q = p.q, !.popped = @ (+) SetToBag({p.x}),
                                  !.x = <<p.x>>]
    /\ UNCHANGED <<program, cel, iter>>

QueueNext ==
    \/ HeapPush
    \/ HeapPop

QueueSpec == QueueInit /\ [][QueueNext]_vars

\* the values of the cells made with cell.New
CellValues == {empty, Side}

\* c := cell.New(val).  The record keeps the last operation made (op); for
\* the Drop calls the digit dropped (v), how often in a row it has been
\* dropped, counted up to two (n), the cell before the first of these calls
\* (from) and after it (once); for the loop over Possibilities() the
\* iterator (p) and the values it has yielded (seen).
CellFresh(c, op) ==
    [use |-> TRUE, c |-> c, op |-> op, v |-> 0, n |-> 0, from |-> c, once |-> c,
     p |-> Possibilities(CellNew(empty)), seen |-> <<>>]

CellInit ==
    /\ Parked
    /\ heapq = Unused
    /\ cel \in {CellFresh(CellNew(val), "New") : val \in CellValues}
    /\ iter = Unused

\* no loop over the possibilities is running
CellAtRest == cel.use /\ cel.op \in {"New", "SetAll", "Drop"}

\* c.SetAll()
CellSetAll ==
    /\ CellAtRest
    /\ cel' = CellFresh(SetAll(cel.c), "SetAll")
    /\ UNCHANGED <<program, heapq, iter>>

\* c.Drop(v) for a digit v
CellDrop ==
    /\ CellAtRest
    /\ \E v \in 1 .. Side :
           cel' = IF cel.op = "Drop" /\ cel.v = v
                  THEN [cel EXCEPT !.c = Drop(@, v), !.n = 2]
                  ELSE [cel EXCEPT !.c = Drop(@, v), !.op = "Drop", !.v = v, !.n = 1,
                                   !.from = cel.c, !.once = Drop(cel.c, v)]
    /\ UNCHANGED <<program, heapq, iter>>

\* p := c.Possibilities()
CellPossibilities ==
    /\ CellAtRest
    /\ cel' = [CellFresh(cel.c, "Possibilities") EXCEPT !.p = Possibilities(cel.c)]
    /\ UNCHANGED <<program, heapq, iter>>

\* the head of the loop for p.Next() { ... p.Value() ... }
CellNext ==
    /\ cel.use
    /\ cel.op \in {"Possibilities", "Next"}
    /\ \E n \in {PNext(cel.p)} :
           cel' = IF n.ok
                  THEN [cel EXCEPT !.p = n.it, !.op = "Next",
                                   !.seen = Append(@, PValue(n.it))]
                  ELSE [cel EXCEPT !.p = n.it, !.op = "End"]
    /\ UNCHANGED <<program, heapq, iter>>

CellStep ==
    \/ CellSetAll
    \/ CellDrop
    \/ CellPossibilities
    \/ CellNext

CellSpec == CellInit /\ [][CellStep]_vars

\* the coordinates of the board
InRange == {Coord(x, y) : x \in 0 .. Side - 1, y \in 0 .. Side - 1}

\* the coordinates the compositions are made for
SampleCoords == {Coord(0, 0), Coord(4, 7), Coord(8, 8)}

\* the iterators made of one constructor
Simple ==
    {All, AllRows, AllColumns, AllBoxes}
        \cup {Row(c) : c \in InRange}
        \cup {Column(c) : c \in InRange}
        \cup {Box(c) : c \in InRange}

\* the compositions: fill's and onlyPlace's, a part of each, and one nested
\* on the right
Compositions ==
    {Composed(Composed(AllRows, AllColumns), AllBoxes), Composed(AllRows, AllColumns)}
        \cup {Composed(Row(c), Column(c)) : c \in SampleCoords}
        \cup {Composed(Composed(Row(c), Column(c)), Box(c)) : c \in SampleCoords}
        \cup {Composed(Row(c), Composed(Column(c), Box(c))) : c \in SampleCoords}

\* the iterators driven far past their end
Driven ==
    {All, AllRows, AllColumns, AllBoxes, Row(Coord(4, 7)), Column(Coord(4, 7)),
     Box(Coord(4, 7)), Composed(Composed(Row(Coord(4, 7)), Column(Coord(4, 7))),
                                Box(Coord(4, 7))),
     Composed(Composed(AllRows, AllColumns), AllBoxes)}

\* the most Next calls made on an instance between two Resets, the most
\* Next calls made after one that returned false where the iterators are
\* not driven far, the most Reset calls, and the most Next calls made on the
\* second instance
MaxCalls == 150

MaxOver == 2

MaxResets == 1

MaxTwinCalls == 2

\* Value() panics: the index of a box iterator is outside of its coords
RECURSIVE ValuePanics(_)
ValuePanics(it) ==
    CASE it.kind = "composed" -> IF it.bRun THEN ValuePanics(it.b) ELSE ValuePanics(it.a)
      [] it.kind = "box" -> it.i \notin 0 .. Side - 1
      [] OTHER -> FALSE

\* Two instances made by the same constructor call m.  Of the first (it):
\* the values yielded (seen), the Next calls made (calls) and those of them
\* that returned false (falses) since it was made or Reset, what the last
\* Next returned (last), the Reset calls made (resets), whether Value()
\* has panicked (panic), how many calls returning false it is driven through
\* (patience), and where the last Reset found it (resetFrom): "fresh" before
\* any Next, "running" after a Next that returned true, "ended" after one
\* that returned false.  Of the second (twin): the values yielded (twinSeen).
IterFresh(m, patience) ==
    [use |-> TRUE, make |-> m, it |-> m, seen |-> <<>>, calls |-> 0, falses |-> 0,
     last |-> TRUE, resets |-> 0, panic |-> FALSE, patience |-> patience,
     resetFrom |-> "none", twin |-> m, twinSeen |-> <<>>]

CoordInit ==
    /\ Parked
    /\ heapq = Unused
    /\ cel = Unused
    /\ iter \in {IterFresh(m, MaxOver) : m \in Simple \cup Compositions}

WrapInit ==
    /\ Parked
    /\ heapq = Unused
    /\ cel = Unused
    /\ iter \in {IterFresh(m, MaxCalls) : m \in Driven}

\* i.Next(), and i.Value() if it returned true
IterNext ==
    /\ iter.use
    /\ ~iter.panic
    /\ iter.calls < MaxCalls
    /\ iter.falses < iter.patience
    /\ \E n \in {Next(iter.it)} :
           iter' = IF ~n.ok
                   THEN [iter EXCEPT !.it = n.it, !.calls = @ + 1, !.falses = @ + 1,
                                     !.last = FALSE]
                   ELSE IF ValuePanics(n.it)
                   THEN [iter EXCEPT !.it = n.it, !.calls = @ + 1, !.last = TRUE,
                                     !.panic = TRUE]
                   ELSE [iter EXCEPT !.it = n.it, !.calls = @ + 1, !.last = TRUE,
                                     !.seen = Append(@, Value(n.it))]
    /\ UNCHANGED <<program, heapq, cel>>

\* i.Reset()
IterReset ==
    /\ iter.use
    /\ ~iter.panic
    /\ iter.resets < MaxResets
    /\ iter' = [iter EXCEPT !.it = Reset(@), !.seen = <<>>, !.calls = 0, !.falses = 0,
                             !.last = TRUE, !.resets = @ + 1,
                             !.resetFrom = IF iter.calls = 0 THEN "fresh"
                                           ELSE IF iter.last THEN "running"
                                           ELSE "ended"]
    /\ UNCHANGED <<program, heapq, cel>>

\* Next() and Value() on the second instance, while Next() returns true
TwinNext ==
    /\ iter.use
    /\ Len(iter.twinSeen) < MaxTwinCalls
    /\ \E n \in {Next(iter.twin)} :
           /\ n.ok
           /\ iter' = [iter EXCEPT !.twin = n.it, !.twinSeen = Append(@, Value(n.it))]
    /\ UNCHANGED <<program, heapq, cel>>

CoordNext ==
    \/ IterNext
    \/ IterReset
    \/ TwinNext

CoordSpec == CoordInit /\ [][CoordNext]_vars

WrapSpec == WrapInit /\ [][CoordNext]_vars

(***************************************************************************)
(* Vocabulary of the properties, stated on indices and digits directly     *)
(***************************************************************************)

Digits == 1 .. Side

Indices == 0 .. Cells - 1

\* d is set in the candidate mask m
Has(m, d) == (m \div (2 ^ (d - 1))) % 2 = 1

Cands(cell) == {d \in Digits : Has(cell.can, d)}

XOf(k) == k % Side

YOf(k) == k \div Side

SameRow(k, l) == YOf(k) = YOf(l)

SameColumn(k, l) == XOf(k) = XOf(l)

SameBox(k, l) ==
    /\ XOf(k) \div BoxSide = XOf(l) \div BoxSide
    /\ YOf(k) \div BoxSide = YOf(l) \div BoxSide

Related(k, l) == SameRow(k, l) \/ SameColumn(k, l) \/ SameBox(k, l)

\* the 27 rows, columns and boxes as sets of indices
Units ==
    {{l \in Indices : SameRow(k, l)} : k \in Indices}
        \cup {{l \in Indices : SameColumn(k, l)} : k \in Indices}
        \cup {{l \in Indices : SameBox(k, l)} : k \in Indices}

Full(b) == \A k \in Indices : b[k].Value # 0

Contradictory(b) == \E k \in Indices : b[k].Value = 0 /\ Cands(b[k]) = {}

\* every row, column and box holds each digit exactly once
RuleConsistent(b) ==
    \A u \in Units : \A d \in Digits :
        Cardinality({k \in u : b[k].Value = d}) = 1

\* the total number of candidate bits on the board
CandidateBits(b) ==
    Cardinality({p \in Indices \X Digits : Has(b[p[1]].can, p[2])})

NoNakedSingle(b) ==
    \A k \in Indices : b[k].Value = 0 => Cardinality(Cands(b[k])) # 1

NoHiddenSingle(b) ==
    \A u \in Units : \A d \in Digits :
        Cardinality({k \in u : Has(b[k].can, d)}) # 1

\* the digit of the grid g at index k
GridAt(g, k) == g[YOf(k) + 1][XOf(k) + 1]

ValidGrid(g) ==
    \A u \in Units : \A d \in Digits :
        Cardinality({k \in u : GridAt(g, k) = d}) = 1

\* one of the Completions is a valid grid that has the values of the board o
HasCompletion(o) ==
    \E g \in Completions :
        /\ \A k \in Indices : o[k].Value # 0 => o[k].Value = GridAt(g, k)
        /\ ValidGrid(g)

\* the board o has a digit twice in a row, column or box: it has no completion
Clash(o) ==
    \E u \in Units : \E d \in Digits :
        Cardinality({k \in u : o[k].Value = d}) > 1

\* the board b is a valid completion of the board o
IsCompletion(b, o) ==
    /\ Full(b)
    /\ RuleConsistent(b)
    /\ \A k \in Indices : o[k].Value # 0 => b[k].Value = o[k].Value

\* iterate is between two attempts; the last one failed
AttemptFailed == pc = "iterate" /\ stack = <<>> /\ ret = "false"

\* the board a solve that has just returned ran on
Returned == boards[Len(stack) + 1]

(***************************************************************************)
(* Properties                                                              *)
(***************************************************************************)

\* C1: with givens that were each a candidate of their unsolved cell, a solve
\* that returns success (and main once iterate has returned) leaves its
\* caller's board full, free of contradiction and with each digit exactly
\* once in every row, column and box.
C1_SuccessIsSolved ==
    (legal /\ (ret = "true" \/ pc = "done")) =>
        /\ Full(Returned)
        /\ ~Contradictory(Returned)
        /\ RuleConsistent(Returned)

\* iterate returned success after failed attempts, on legal givens
C1_Witness == pc = "done" /\ legal /\ maxDepth > StartDepth

\* what fill(c, v) must have done to the board b, nb being the board after
FillPost(b, c, v, nb) ==
    LET t == c.Y * Side + c.X
    IN  /\ nb[t] = [Value |-> v, can |-> 0]
        /\ \A k \in Indices : Related(k, t) => ~Has(nb[k].can, v)
        /\ \A k \in Indices \ {t} :
              /\ nb[k].Value = b[k].Value
              /\ \A d \in Digits \ {v} : Has(nb[k].can, d) = Has(b[k].can, d)

\* C2: every fill, of a given by main or of a hypothesis by try on its clone,
\* leaves the target with value v and no candidates, leaves no cell of the
\* target's row, column or box with candidate v, and changes no other value
\* and no candidate bit of another digit.
C2_FillPost ==
    [][ /\ (pc = "givens" /\ givens # <<>>) =>
              FillPost(boards[1], Head(givens).c, Head(givens).v, boards'[1])
        /\ (stack # <<>> /\ top.pc = "next" /\ Len(stack') > Len(stack)) =>
              FillPost(cur, top.c, PValue(stack'[Len(stack)].i),
                       boards'[Len(stack')]) ]_vars

\* all givens are filled, one of them over a solved cell or with a digit that
\* was no candidate, and a hypothesis has been filled on a clone
C2_Witness == pc = "iterate" /\ ~legal /\ Len(boards) > 1

\* C3: a call of singlePossible or onlyPlace that returns true strictly
\* decreases the number of candidate bits of the board, one that returns
\* false leaves the board unchanged, and the loop of solve is always left.
C3_RulesDecrease ==
    /\ [][ (stack # <<>> /\ top.pc \in {"singlePossible", "onlyPlace"}) =>
              IF stack'[Len(stack)].pc = "singlePossible"
              THEN CandidateBits(boards'[Len(stack)]) < CandidateBits(cur)
              ELSE boards'[Len(stack)] = cur ]_vars
    /\ []<>(stack = <<>> \/ top.pc \notin {"singlePossible", "onlyPlace"})

\* the propagation rules have dropped candidates inside a clone, beyond those
\* the fill of the hypothesis dropped
C3_Witness ==
    /\ Len(stack) > 1
    /\ top.pc = "singlePossible"
    /\ CandidateBits(cur) < CandidateBits(fill(boards[Len(stack) - 1],
          stack[Len(stack) - 1].c, PValue(stack[Len(stack) - 1].i))) - 1

\* the positions of a frame after the loop of solve
AfterLoop == {"solved", "contradicts", "try", "pop", "next", "wait"}

\* C4: once the loop of solve is left, and so all through try, the board has no
\* unsolved cell with exactly one candidate and no row, column or box in which
\* a digit is a candidate of exactly one cell.
C4_StableBeforeBranch ==
    \A d \in 1 .. Len(stack) :
        stack[d].pc \in AfterLoop =>
            NoNakedSingle(boards[d]) /\ NoHiddenSingle(boards[d])

\* try is about to branch on a cell of a board that propagation changed
C4_Witness ==
    /\ stack # <<>>
    /\ top.pc = "next"
    /\ Len(stack) = 1
    /\ cur # orig

C6_NeverReturns == Clash(orig) => pc # "done"

\* C6: on a board of givens that were each a candidate, iterate returns only
\* with a valid completion of the givens on the board, so never when there is
\* none: then every attempt fails, and a failed attempt is followed by the
\* next one with maxDepth one more.
C6_ReturnsOnlyCompleted ==
    /\ []((legal /\ pc = "done") => IsCompletion(boards[1], orig))
    /\ []((legal /\ pc = "iterate" /\ ret = "true" /\ stack = <<>>) =>
            IsCompletion(boards[1], orig))
    /\ [][AttemptFailed => (pc' = "iterate" /\ maxDepth' = maxDepth + 1 /\ ret' = "none")]_vars

\* every attempt up to the last has failed on givens that were each a
\* candidate, with hypotheses made: the board itself shows no contradiction
C6_Witness ==
    /\ AttemptFailed
    /\ maxDepth > StartDepth + 1
    /\ legal
    /\ ~HasCompletion(orig)
    /\ ~Contradictory(boards[1])

\* C7 as stated: the attempt after a failed one starts on the board iterate
\* was called on.
C7_RetryFromOriginal ==
    (pc = "iterate" /\ stack = <<>> /\ ret = "none" /\ maxDepth > StartDepth) =>
        boards[1] = orig

\* C7: the attempt after a failed one starts, with maxDepth one more, on the
\* board as the failed attempt left it, and an attempt changes iterate's
\* board only by the propagation of solve at depth 0 and by the copy of a
\* successful clone: the values iterate was called with stay, no candidate
\* comes back, and no value of a failed hypothesis is on it.
C7_RetryFromPropagated ==
    /\ [][AttemptFailed => (boards' = boards /\ maxDepth' = maxDepth + 1)]_vars
    /\ [][(pc = "iterate" /\ boards'[1] # boards[1]) =>
             /\ Len(stack) = 1
             /\ \/ top.pc \in {"singlePossible", "onlyPlace"}
                \/ top.pc = "wait" /\ ret = "true"]_vars
    /\ [](pc = "iterate" =>
            \A k \in Indices :
                /\ orig[k].Value # 0 => boards[1][k] = orig[k]
                /\ Cands(boards[1][k]) \subseteq Cands(orig[k]))

\* an attempt that the depth guard cut has failed, and has left iterate's
\* board other than iterate was called with
C7_Witness ==
    /\ AttemptFailed
    /\ cut
    /\ boards[1] # orig

\* the positions of a frame inside try
InTry == {"pop", "next", "wait"}

\* C8: all through try the board it was called on is as it was at entry, a
\* try that returns failure leaves it so, and every clone starts as that
\* board with the one hypothesis filled.
C8_FailedTryLeavesBoard ==
    /\ [](\A d \in 1 .. Len(stack) :
            stack[d].pc \in InTry => boards[d] = stack[d].entry)
    /\ [][(stack # <<>> /\ top.pc = "pop" /\ Len(top.q) = 0) =>
             (boards'[Len(stack)] = top.entry /\ ret' = "false")]_vars
    /\ [][(stack # <<>> /\ top.pc = "wait" /\ ret = "false") =>
             boards'[Len(stack)] = top.entry]_vars
    /\ [][(stack # <<>> /\ top.pc = "next" /\ Len(stack') > Len(stack)) =>
             boards'[Len(stack')] =
                 fill(top.entry, top.c, PValue(stack'[Len(stack)].i))]_vars

\* a try has returned failure to a try that had already seen a clone fail
C8_Witness ==
    /\ Len(stack) > 1
    /\ top.pc = "pop"
    /\ Len(top.q) = 0
    /\ stack[Len(stack) - 1].i.can # at(boards[Len(stack) - 1], stack[Len(stack) - 1].c).can

\* C9: every state has at most one successor: no step is possible to a state
\* other than the one the step taken leads to.
C9_OneSuccessor ==
    [][\A t \in {vars'} : ~ENABLED (Next0 /\ vars' # t)]_vars

\* try has taken a cell from a queue that holds another cell with the same
\* number of candidates
C9_Witness ==
    /\ stack # <<>>
    /\ top.pc = "next"
    /\ \E k \in 1 .. Len(top.q) :
          top.q[k].Count = PossibilityCount(at(cur, top.c))

\* C10: in every board, main's and every clone, a cell with a nonzero value
\* has an empty candidate mask.
C10_SolvedCellsHaveNoCandidates ==
    \A d \in 1 .. Len(boards) : \A k \in Indices :
        boards[d][k].Value # 0 => boards[d][k].can = 0

\* a clone holds a hypothesis next to the givens
C10_Witness ==
    /\ Len(boards) > 2
    /\ \E k \in Indices : boards[3][k].Value # 0 /\ boards[1][k].Value = 0

\* the index of the cell at coordinate c
IndexOf(c) == c.Y * Side + c.X

\* the grid g has the values iterate was called with and the hypotheses
\* under which the board of frame d is explored
Extends(g, d) ==
    /\ \A k \in Indices : orig[k].Value # 0 => GridAt(g, k) = orig[k].Value
    /\ \A j \in 1 .. d - 1 : GridAt(g, IndexOf(stack[j].c)) = PValue(stack[j].i)

\* C11: on the board of a running solve, reached from givens that were each a
\* candidate (and, in a clone, from the hypotheses filled so far) by
\* singlePossible and onlyPlace, every valid grid among the Completions that
\* agrees with those givens and hypotheses has its digit among the candidates
\* of each unsolved cell and as the value of each solved cell.
C11_CandidatesBoundCompletions ==
    \A d \in 1 .. Len(stack) : \A g \in Completions :
        (legal /\ pc = "iterate" /\ Extends(g, d) /\ ValidGrid(g)) =>
            \A k \in Indices :
                IF boards[d][k].Value = 0
                THEN Has(boards[d][k].can, GridAt(g, k))
                ELSE boards[d][k].Value = GridAt(g, k)

\* propagation has filled cells on iterate's board and, after a hypothesis
\* that a completion has, on a clone, with cells still unsolved
C11_Witness ==
    /\ Len(stack) = 2
    /\ top.pc = "solved"
    /\ legal
    /\ boards[1] # orig
    /\ \E g \in Completions : Extends(g, 2) /\ ValidGrid(g)
    /\ \E k \in Indices \ {IndexOf(stack[1].c)} :
          cur[k].Value # 0 /\ boards[1][k].Value = 0
    /\ \E k \in Indices : cur[k].Value = 0

\* the entries of the queue q as a bag
BagOfQueue(q) ==
    [e \in {q[k] : k \in DOMAIN q} |-> Cardinality({k \in DOMAIN q : q[k] = e})]

\* C12: whatever heap pushes and pops were made on a Queue, Len() is the
\* number of pushes minus the number of pops, the entries popped together
\* with the entries in the queue are the entries pushed, each as often, and a
\* pop returns an entry whose Count is at most the Count of every entry left.
C12_MinQueue ==
    /\ [](heapq.use =>
            /\ Len(heapq.q) =
                  BagCardinality(heapq.pushed) - BagCardinality(heapq.popped)
            /\ BagOfQueue(heapq.q) (+) heapq.popped = heapq.pushed)
    /\ [][(heapq.use /\ heapq'.popped # heapq.popped) =>
             /\ Len(heapq'.q) = Len(heapq.q) - 1
             /\ heapq'.popped = heapq.popped (+) SetToBag({heapq'.x[1]})
             /\ \A k \in DOMAIN heapq'.q : heapq'.x[1].Count <= heapq'.q[k].Count]_vars

\* two pops at least have been made, the last of them leaving entries in the
\* queue, one with a higher Count, and some entry has been pushed twice
C12_Witness ==
    /\ heapq.use
    /\ heapq.x # <<>>
    /\ Len(heapq.q) >= 2
    /\ BagCardinality(heapq.popped) >= 2
    /\ \E e \in DOMAIN heapq.pushed : heapq.pushed[e] > 1
    /\ \E k \in DOMAIN heapq.q : heapq.q[k].Count > heapq.x[1].Count

\* the sequence s holds exactly the digits set in the mask of c, each once,
\* in ascending order
YieldsCandidates(s, c) ==
    /\ Len(s) = Cardinality(Cands(c))
    /\ {s[k] : k \in DOMAIN s} = Cands(c)
    /\ \A k \in 1 .. Len(s) - 1 : s[k] < s[k + 1]

\* C13 as stated: the loop over the Possibilities() of a cell yields exactly
\* the digits set in its mask, each once, in ascending order, for every mask
\* of nine bits, the empty one included.
C13_YieldsCandidates ==
    (cel.use /\ cel.op = "End") => YieldsCandidates(cel.seen, cel.c)

\* the same for the masks that are not empty
C13_YieldsCandidatesOfNonEmpty ==
    (cel.use /\ cel.op = "End" /\ cel.c.can # none) =>
        YieldsCandidates(cel.seen, cel.c)

\* the loop over the possibilities of a cell without candidates has ended
C13_EmptyMaskLoopEnded ==
    cel.use /\ cel.op = "End" /\ cel.c.can = none

\* the values of the sequence s
ToSet(s) == {s[k] : k \in DOMAIN s}

\* C14: an instance that was Reset, wherever the Reset found it, yields the
\* values a freshly made instance yields, in the same order, and ends where
\* it ends; and a second instance yields them too, whatever was done to the
\* first.
C14_Restartable ==
    /\ (iter.use /\ iter.resets > 0) =>
            /\ iter.seen = SubSeq(Drain(iter.make), 1, iter.calls - iter.falses)
            /\ iter.falses > 0 => iter.seen = Drain(iter.make)
    /\ iter.use => iter.twinSeen = SubSeq(Drain(iter.make), 1, Len(iter.twinSeen))

\* an instance of fill's composition, Reset while it was running, has been
\* driven to its end again, and the second instance has yielded values
C14_Witness ==
    /\ iter.use
    /\ iter.resetFrom = "running"
    /\ iter.falses > 0
    /\ iter.make = Composed(Composed(Row(Coord(4, 7)), Column(Coord(4, 7))),
                            Box(Coord(4, 7)))
    /\ Len(iter.twinSeen) = MaxTwinCalls

\* what the parts of a composition yield, one part after the other
RECURSIVE Flat(_)
Flat(it) ==
    IF it.kind = "composed" THEN Flat(it.a) \o Flat(it.b) ELSE Drain(it)

\* C15: a composition yields what a yields, in a's order, then what b yields,
\* in b's order, and nothing else: Next returns true as often as a and b
\* have elements together, and the k-th value is the k-th of that sequence;
\* so for the nested compositions, and the composition of fill yields 27
\* coordinates, c itself three times.
C15_ComposedYields ==
    (iter.use /\ iter.make.kind = "composed") =>
        /\ Flat(iter.make) = Drain(iter.make.a) \o Drain(iter.make.b)
        /\ iter.seen = SubSeq(Flat(iter.make), 1, iter.calls - iter.falses)
        /\ iter.falses > 0 => iter.seen = Flat(iter.make)
        /\ \A c \in SampleCoords :
              (iter.falses > 0
                  /\ iter.make = Composed(Composed(Row(c), Column(c)), Box(c))) =>
                  /\ Len(iter.seen) = 3 * Side
                  /\ Cardinality({k \in DOMAIN iter.seen : iter.seen[k] = c}) = 3

\* fill's composition has been driven to its end
C15_Witness ==
    /\ iter.use
    /\ iter.resets = 0
    /\ iter.falses > 0
    /\ iter.make = Composed(Composed(Row(Coord(8, 8)), Column(Coord(8, 8))),
                            Box(Coord(8, 8)))
    /\ Len(iter.seen) = 3 * Side

\* the cells of the groups that the sequence s of iterators holds
GroupCells(s) == [k \in DOMAIN s |-> ToSet(Drain(s[k]))]

\* the sets of cells gs[1], ..., gs[9] partition the board
Partition(gs) ==
    /\ Len(gs) = Side
    /\ \A k \in DOMAIN gs : Cardinality(gs[k]) = Side
    /\ \A k, l \in DOMAIN gs : k # l => gs[k] \cap gs[l] = {}
    /\ UNION {gs[k] : k \in DOMAIN gs} = InRange

\* C16: driven to its end, Row(c), Column(c) and Box(c) of a coordinate c of
\* the board have each yielded 9 different coordinates: the cells of c's
\* row, of c's column, and of the 3x3 box whose corner is c's x and y rounded
\* down to a multiple of 3, c among them; All() has yielded the 81
\* coordinates row by row; AllRows(), AllColumns() and AllBoxes() have each
\* yielded 9 groups, the rows, the columns and the boxes, that partition the
\* board.
C16_GroupsAreUnits ==
    (iter.use /\ iter.falses > 0) =>
        LET m == iter.make
            s == iter.seen
        IN  /\ m.kind \in {"row", "column", "box"} =>
                  /\ Len(s) = Side
                  /\ Cardinality(ToSet(s)) = Side
                  /\ m.base \in ToSet(s)
            /\ m.kind = "row" => ToSet(s) = {c \in InRange : c.Y = m.base.Y}
            /\ m.kind = "column" => ToSet(s) = {c \in InRange : c.X = m.base.X}
            /\ m.kind = "box" =>
                  ToSet(s) = {c \in InRange :
                                 /\ c.X \div BoxSide = m.base.X \div BoxSide
                                 /\ c.Y \div BoxSide = m.base.Y \div BoxSide}
            /\ m.kind = "all" =>
                  s = [k \in 1 .. Cells |-> Coord((k - 1) % Side, (k - 1) \div Side)]
            /\ m.kind \in {"allRows", "allColumns", "allBoxes"} =>
                  Partition(GroupCells(s))
            /\ m.kind = "allRows" =>
                  \A k \in DOMAIN s : \A c, d \in GroupCells(s)[k] : c.Y = d.Y
            /\ m.kind = "allColumns" =>
                  \A k \in DOMAIN s : \A c, d \in GroupCells(s)[k] : c.X = d.X
            /\ m.kind = "allBoxes" =>
                  \A k \in DOMAIN s : \A c, d \in GroupCells(s)[k] :
                      /\ c.X \div BoxSide = d.X \div BoxSide
                      /\ c.Y \div BoxSide = d.Y \div BoxSide

\* the box of a coordinate that is no corner has been driven to its end
C16_Witness ==
    /\ iter.use
    /\ iter.falses > 0
    /\ iter.make = Box(Coord(4, 7))
    /\ Coord(3, 6) \in ToSet(iter.seen)

\* C17: Drop(v) of a digit v leaves the value of the cell and clears bit
\* v - 1 of its mask, every other bit staying as it was, and a second
\* Drop(v) right after it leaves the cell as the first one left it.
C17_DropIdempotent ==
    (cel.use /\ cel.op = "Drop") =>
        /\ cel.once.Value = cel.from.Value
        /\ \A d \in 1 .. 16 :
              Has(cel.once.can, d) <=> (Has(cel.from.can, d) /\ d # cel.v)
        /\ cel.c = cel.once

\* a candidate of a cell with more candidates has been dropped twice
C17_Witness ==
    /\ cel.use
    /\ cel.op = "Drop"
    /\ cel.n = 2
    /\ Has(cel.from.can, cel.v)
    /\ Cardinality(Cands(cel.from)) > 2

\* the unsolved cells of the board b with 1 to w candidates
Eligible(b, w) ==
    {k \in Indices : b[k].Value = 0 /\ PossibilityCount(b[k]) \in 1 .. w}

\* the candidates of the cell try is at that are above the digit tried last,
\* all its candidates when none was tried yet
Untried ==
    {v \in Cands(at(cur, top.c)) : top.i.init => v > PValue(top.i)}

Least(S) == CHOOSE v \in S : \A u \in S : v <= u

\* try builds its queue: the cells queued are the eligible cells of the
\* board, each once, under its number of candidates
QueueBuilt ==
    (stack # <<>> /\ top.pc = "try") =>
        LET q == stack'[Len(stack)].q
        IN  /\ Len(stack') = Len(stack)
            /\ stack'[Len(stack)].pc = "pop"
            /\ {IndexOf(q[j].Coord) : j \in DOMAIN q} = Eligible(cur, top.maxWidth)
            /\ Len(q) = Cardinality(Eligible(cur, top.maxWidth))
            /\ \A j \in DOMAIN q : q[j].Count = PossibilityCount(at(cur, q[j].Coord))
            /\ boards' = boards

\* try takes a cell: it leaves the queue, no cell left has fewer candidates,
\* and it has no fewer candidates than the cell taken before it
CellTaken ==
    (stack # <<>> /\ top.pc = "pop" /\ Len(top.q) > 0) =>
        LET f == stack'[Len(stack)]
        IN  /\ Len(stack') = Len(stack)
            /\ f.pc = "next"
            /\ \E j \in DOMAIN top.q :
                  /\ top.q[j].Coord = f.c
                  /\ BagOfQueue(f.q) (+) SetToBag({top.q[j]}) = BagOfQueue(top.q)
                  /\ \A k \in DOMAIN f.q : top.q[j].Count <= f.q[k].Count
            /\ Len(top.q) < Cardinality(Eligible(cur, top.maxWidth)) =>
                  PossibilityCount(at(cur, top.c)) <= PossibilityCount(at(cur, f.c))
            /\ ~f.i.init
            /\ boards' = boards

\* the queue is used up: try returns failure
QueueUsedUp ==
    (stack # <<>> /\ top.pc = "pop" /\ Len(top.q) = 0) =>
        /\ Len(stack') = Len(stack) - 1
        /\ ret' = "false"
        /\ boards' = boards

\* try moves on in the candidates of its cell: the least candidate not tried
\* yet is filled into a new clone, which a solve one level down is called
\* on; when all were tried the next cell is due
DigitTried ==
    (stack # <<>> /\ top.pc = "next") =>
        IF Untried = {}
        THEN /\ Len(stack') = Len(stack)
             /\ stack'[Len(stack)].pc = "pop"
             /\ stack'[Len(stack)].q = top.q
             /\ boards' = boards
        ELSE /\ Len(stack') = Len(stack) + 1
             /\ stack'[Len(stack)].pc = "wait"
             /\ stack'[Len(stack)].c = top.c
             /\ stack'[Len(stack)].q = top.q
             /\ PValue(stack'[Len(stack)].i) = Least(Untried)
             /\ stack'[Len(stack')].pc = "solve"
             /\ stack'[Len(stack')].depth = top.depth + 1
             /\ Len(boards') = Len(stack')
             /\ FillPost(cur, top.c, Least(Untried), boards'[Len(stack')])
             /\ \A d \in 1 .. Len(stack) : boards'[d] = boards[d]

\* the solve called on a clone has returned: on success try returns success
\* with the clone as its board, on failure it keeps its board, queue and cell
HypothesisSettled ==
    (stack # <<>> /\ top.pc = "wait" /\ ret # "none") =>
        IF ret = "true"
        THEN /\ Len(stack') = Len(stack) - 1
             /\ ret' = "true"
             /\ boards'[Len(stack)] = boards[Len(stack) + 1]
             /\ Full(boards'[Len(stack)])
        ELSE /\ Len(stack') = Len(stack)
             /\ stack' = SetTop([top EXCEPT !.pc = "next"])
             /\ boards'[Len(stack)] = boards[Len(stack)]

\* C18: a call of try queues exactly the unsolved cells with 1 to maxWidth
\* candidates, takes each of them at most once and in non-decreasing number
\* of candidates, tries the candidates of the cell taken each once in
\* ascending order, each on a new clone of its board, returns success with
\* the clone as its board at the first hypothesis whose solve succeeds, and
\* returns failure when the queue is used up.
C18_BranchOrder ==
    [][ /\ QueueBuilt
        /\ CellTaken
        /\ QueueUsedUp
        /\ DigitTried
        /\ HypothesisSettled ]_vars

\* the solve of a hypothesis has succeeded on a cell that was not the first
\* one taken from the queue, and the queue still holds cells
C18_Witness ==
    /\ stack # <<>>
    /\ top.pc = "wait"
    /\ ret = "true"
    /\ Len(top.q) > 0
    /\ Len(top.q) + 1 < Cardinality(Eligible(cur, top.maxWidth))

\* C19: the call of solve at stack position d has depth d - 1, one for each
\* hypothesis made below it, and the maxDepth of the iteration; no call has
\* a depth above maxDepth, a call that went past its guard has a depth below
\* maxDepth, a call with depth >= maxDepth returns failure and changes no
\* board, and a call that finds its board solved has at most maxDepth - 1
\* hypotheses below it.
C19_DepthGuard ==
    /\ [](\A d \in 1 .. Len(stack) :
            /\ stack[d].depth = d - 1
            /\ stack[d].maxDepth = maxDepth
            /\ stack[d].depth <= stack[d].maxDepth
            /\ stack[d].pc # "solve" => stack[d].depth < stack[d].maxDepth
            /\ d < Len(stack) => stack[d].pc = "wait")
    /\ [][(stack # <<>> /\ top.pc = "solve" /\ top.depth >= top.maxDepth) =>
             /\ Len(stack') = Len(stack) - 1
             /\ ret' = "false"
             /\ boards' = boards]_vars
    /\ [][(stack # <<>> /\ ret = "none" /\ ret' = "true") =>
             /\ top.pc = "solved"
             /\ Full(cur)
             /\ Cardinality({d \in 1 .. Len(stack) : stack[d].pc = "wait"})
                    <= maxDepth - 1]_vars

\* solve is called at depth maxDepth on a clone whose hypotheses all agree
\* with a completion of the puzzle and on which singlePossible would fill a
\* cell
C19_Witness ==
    /\ stack # <<>>
    /\ top.pc = "solve"
    /\ top.depth >= top.maxDepth
    /\ legal
    /\ \E g \in Completions : Extends(g, Len(stack)) /\ ValidGrid(g)
    /\ singlePossible(cur).r

\* C20: once Next() of a coordinate iterator has returned false, every later
\* Next() returns false until Reset() is called: the position counter does
\* not come back into the valid range, Value() does not panic, and every
\* value yielded is a coordinate of the board or a group of one.
C20_EndedStaysEnded ==
    iter.use =>
        /\ iter.falses > 0 => ~iter.last
        /\ ~iter.panic
        /\ \A k \in DOMAIN iter.seen : iter.seen[k] \in InRange \cup Simple

\* Next() has returned true on an instance on which it had returned false
\* since it was made or Reset
C20_WrappedAround ==
    /\ iter.use
    /\ iter.falses > 0
    /\ iter.last

\* nb is the board b, or b after one fill of the unsolved cell at c with one
\* of its candidates
FillsUnsolved(b, c, nb) ==
    \/ nb = b
    \/ /\ at(b, c).Value = 0
       /\ \E v \in Cands(at(b, c)) : FillPost(b, c, v, nb)

\* singlePossible's loop over positions lo..hi of cs on s = [b, ok], ok
\* telling that every pass of its body so far has filled an unsolved cell
\* with a candidate or filled nothing
RECURSIVE singlePossibleFills(_, _, _, _)
singlePossibleFills(s, cs, lo, hi) ==
    IF lo > hi THEN s
    ELSE IF lo = hi
    THEN With(singlePossibleBody([b |-> s.b, r |-> FALSE], cs[lo]).b, LAMBDA nb :
            [b |-> nb, ok |-> s.ok /\ FillsUnsolved(s.b, cs[lo], nb)])
    ELSE With(singlePossibleFills(s, cs, lo, (lo + hi) \div 2), LAMBDA left :
            singlePossibleFills(left, cs, (lo + hi) \div 2 + 1, hi))

\* the board nb has the values of the board b in the cells b has solved
KeepsValues(b, nb) ==
    \A k \in Indices : b[k].Value # 0 => nb[k].Value = b[k].Value

\* where a row, column or box of the board b holds a digit more than once,
\* every cell holding it is a given of that digit
ClashesAreGiven(b) ==
    \A u \in Units : \A v \in Digits :
        With({k \in u : b[k].Value = v}, LAMBDA S :
            Cardinality(S) > 1 => \A k \in S : orig[k].Value = v)

\* main has called iterate
Solving == pc \in {"iterate", "done"}

\* C21: every fill singlePossible, onlyPlace and try make is of a cell whose
\* value is 0 with a digit that is a candidate of the cell at that moment; no
\* step of the solver changes the value of a solved cell on the board of a
\* running call; a clone starts with the values of the board it was cloned
\* from; so every board, while the solver runs and after iterate has
\* returned, holds the givens, and two cells of a row, column or box hold the
\* same digit on it only where two givens did.
C21_SolvedCellsKept ==
    /\ [][(stack # <<>> /\ top.pc = "singlePossible") =>
             With(Drain(All), LAMBDA cs :
                 With(singlePossibleFills([b |-> cur, ok |-> TRUE], cs, 1, Len(cs)),
                      LAMBDA s : s.ok /\ boards'[Len(stack)] = s.b))]_vars
    /\ [][(stack # <<>> /\ top.pc = "onlyPlace") =>
             \E c \in InRange : FillsUnsolved(cur, c, boards'[Len(stack)])]_vars
    /\ [][(stack # <<>> /\ top.pc = "next" /\ Len(stack') > Len(stack)) =>
             /\ at(cur, top.c).Value = 0
             /\ PValue(stack'[Len(stack)].i) \in Cands(at(cur, top.c))
             /\ boards'[Len(stack')] # cur
             /\ FillsUnsolved(cur, top.c, boards'[Len(stack')])]_vars
    /\ [][Solving =>
             \A d \in 1 .. Len(boards) :
                 d <= Len(boards') => KeepsValues(boards[d], boards'[d])]_vars
    /\ [](Solving =>
            \A d \in 1 .. Len(boards) :
                /\ KeepsValues(orig, boards[d])
                /\ d > 1 => KeepsValues(boards[d - 1], boards[d])
                /\ ClashesAreGiven(boards[d]))

\* iterate has returned on givens that hold a digit twice in a row, column
\* or box, with cells filled by the solver
C21_Witness ==
    /\ pc = "done"
    /\ Clash(orig)
    /\ \E k \in Indices : orig[k].Value = 0 /\ boards[1][k].Value # 0
====
